---- MODULE Spec2Model ----
(***************************************************************************)
(* State-machine model of the trajectory tracker node                      *)
(* (trajectory_tracker.cpp): the stored path, the progress index, the two  *)
(* velocity limiters, the runtime parameters, and one action per callback  *)
(* (cbPath, cbSpeed, cbParameter, cbTimer, cbOdometry -> control).          *)
(*                                                                         *)
(* Numbers.  The node computes in floating point.  The model computes on a *)
(* fixed-point lattice: positions and lengths are integer multiples of one *)
(* length unit, angles integer multiples of pi/4 (PiU = 4 is pi), times    *)
(* integer multiples of the timer period, velocities length (angle) units  *)
(* per time unit.  Waypoint positions are lattice points and consecutive   *)
(* waypoints differ in one coordinate only, so that every length, signed   *)
(* distance and projection the node computes is an exact lattice value.    *)
(* sqrt is the integer square root, cos and sin are a table scaled by      *)
(* 100.                                                                    *)
(*                                                                         *)
(* Frames.  control() moves the path into the robot frame with the rigid   *)
(* motion robot_to_odom * odom_to_path and measures it against `origin',   *)
(* the look-ahead point.  Lengths, projections and signed distances are    *)
(* the same in every frame, so the model evaluates them in the path frame, *)
(* and the transform handed to a tick is given by the place it puts        *)
(* `origin' in the path frame and by its yaw (trans_yaw): for fixed        *)
(* limiter values these two determine the transform and the other way      *)
(* round.  Only headings depend on the frame; they are shifted by          *)
(* trans_yaw as the node does.                                             *)
(*                                                                         *)
(* Iterators are 0-based indices into a path: At(p, i) is p[i], Len(p) is  *)
(* p.end().                                                                *)
(***************************************************************************)
EXTENDS Integers, Sequences, FiniteSets, TLC

----------------------------------------------------------------------------
(* Bounds of the model *)

\* odometry stamps are drawn from 0..MaxStamp (0 is ros::Time(), "unset")
MaxStamp == 2
\* the look-ahead point is at most MaxOff length units beside or past the path
MaxOff == 2

----------------------------------------------------------------------------
(* Program constants *)

\* M_PI in angle units (one unit is pi/4)
PiU == 4
\* std::numeric_limits<float>::quiet_NaN(): the velocity of a pose that has none
NaN == 99

\* trajectory_tracker_msgs::TrajectoryTrackerStatus codes
NO_PATH == "NO_PATH"
FAR_FROM_PATH == "FAR_FROM_PATH"
FOLLOWING == "FOLLOWING"
GOAL == "GOAL"

----------------------------------------------------------------------------
(* Arithmetic helpers *)

Abs(x) == IF x < 0 THEN -x ELSE x

Min(a, b) == IF a < b THEN a ELSE b

Max(a, b) == IF a > b THEN a ELSE b

\* std::copysign(1.0, x) for a value that is not -0.0
Sign1(x) == IF x < 0 THEN -1 ELSE 1

\* floor of the square root
ISqrt(n) == CHOOSE r \in 0..n : r * r <= n /\ (r + 1) * (r + 1) > n

\* std::isnan / std::isfinite on a waypoint velocity
isnan(v) == v = NaN

isfinite(v) == v # NaN

\* an angle brought into (-pi, pi]
angleNormalized(a) == ((a + PiU - 1) % (2 * PiU)) - (PiU - 1)

\* 100 * cos and 100 * sin of an angle given in units of pi/4
Cos(a) ==
  LET n == Abs(angleNormalized(a))
  IN  CASE n = 0 -> 100 [] n = 1 -> 71 [] n = 2 -> 0 [] n = 3 -> -71 [] OTHER -> -100

Sin(a) == Cos(a - 2)

\* atan2(vec[1], vec[0]) of a lattice vector along one axis; atan2(0, 0) = 0
Atan2(vec) ==
  IF vec[2] = 0 THEN (IF vec[1] >= 0 THEN 0 ELSE PiU)
  ELSE IF vec[2] > 0 THEN 2 ELSE -2

Sub(a, b) == <<a[1] - b[1], a[2] - b[2]>>

Dot(a, b) == a[1] * b[1] + a[2] * b[2]

SquaredNorm(a) == Dot(a, a)

\* Eigen norm(): exact for a vector along one axis, else rounded down
Norm(a) == ISqrt(SquaredNorm(a))

----------------------------------------------------------------------------
(* basic_control.h *)

clip(v, max) == IF v < -max THEN -max ELSE IF v > max THEN max ELSE v

Clamp(x, lo, hi) == IF x < lo THEN lo ELSE IF x > hi THEN hi ELSE x

\* timeOptimalControl(angle, acc) = -sign(angle) * sqrt(2 * acc * |angle|)
timeOptimalControl(angle, acc) ==
  (IF angle > 0 THEN -1 ELSE 1) * ISqrt(Abs(2 * acc * angle))

\* VelAccLimitter::set: the new limiter value from the old one, val_prev
VelAccLimitter_set(val_prev, v, vel, acc, dt) ==
  val_prev + Clamp(clip(v, vel) - val_prev, -(acc * dt), acc * dt)

\* VelAccLimitter::increment
VelAccLimitter_increment(val_prev, v, vel, acc, dt) ==
  VelAccLimitter_set(val_prev, val_prev + v, vel, acc, dt)

\* VelAccLimitter::clear
VelAccLimitter_clear == 0

----------------------------------------------------------------------------
(* path2d.h, eigen_line.h *)

\* Pose2D: a waypoint
Pose2D(pos, yaw, velocity) == [pos_ |-> pos, yaw_ |-> yaw, velocity_ |-> velocity]

\* the element an iterator at index i points to
At(p, i) == p[i + 1]

\* heading of a vector seen through a transform of yaw ty; atan2(0, 0) = 0
Heading(vec, ty) == IF vec = <<0, 0>> THEN 0 ELSE Atan2(vec) + ty

\* Path2D::length: the sum of the segment lengths
RECURSIVE lengthFrom(_, _)
lengthFrom(p, i) ==
  IF i >= Len(p) THEN 0
  ELSE Norm(Sub(At(p, i).pos_, At(p, i - 1).pos_)) + lengthFrom(p, i + 1)

length(p) == lengthFrom(p, 1)

\* Path2D::findLocalGoal: scans forward from `begin' until the direction of
\* travel (segment heading against waypoint yaw) reverses, and returns that
\* index, or end.  A segment of length 0 has no direction and reverses nothing.
RECURSIVE findLocalGoalFrom(_, _, _, _)
findLocalGoalFrom(p, it, sign_vel_prev, ty) ==
  IF it >= Len(p) THEN Len(p)
  ELSE
    LET inc == Sub(At(p, it).pos_, At(p, it - 1).pos_)
        angle == Heading(inc, ty)
        angle_pose == At(p, it).yaw_
        sign_vel_req == Cos(angle) * Cos(angle_pose) + Sin(angle) * Sin(angle_pose)
    IN  IF inc = <<0, 0>> THEN findLocalGoalFrom(p, it + 1, sign_vel_prev, ty)
        ELSE IF sign_vel_prev * sign_vel_req < 0 THEN it
        ELSE findLocalGoalFrom(p, it + 1, sign_vel_req, ty)

findLocalGoal(p, begin, allow_backward, ty) ==
  IF allow_backward THEN findLocalGoalFrom(p, begin + 1, 0, ty) ELSE Len(p)

\* squared distance from c to the segment a b
lineStripDistanceSq(a, b, c) ==
  LET ab == Sub(b, a)
      t == Dot(Sub(c, a), ab)
  IN  IF ab = <<0, 0>> \/ t <= 0 THEN SquaredNorm(Sub(c, a))
      ELSE IF t >= SquaredNorm(ab) THEN SquaredNorm(Sub(c, b))
      ELSE IF ab[2] = 0 THEN (c[2] - a[2]) * (c[2] - a[2])
      ELSE (c[1] - a[1]) * (c[1] - a[1])

\* lineDistance: signed distance from c to the line through a and b (positive
\* on the left of a -> b); the plain distance when a = b
lineDistance(a, b, c) ==
  LET ab == Sub(b, a)
  IN  IF ab = <<0, 0>> THEN Norm(Sub(c, a))
      ELSE IF ab[2] = 0 THEN Sign1(ab[1]) * (c[2] - a[2])
      ELSE -Sign1(ab[2]) * (c[1] - a[1])

\* projection2d: orthogonal projection of c onto the line through a and b
projection2d(a, b, c) ==
  LET ab == Sub(b, a)
  IN  IF ab = <<0, 0>> THEN a
      ELSE IF ab[2] = 0 THEN <<c[1], a[2]>>
      ELSE <<a[1], c[2]>>

\* Path2D::findNearest: the end of the segment of [begin, end) nearest to
\* target, searching forward from begin; begin itself when no segment is
\* nearer than it; end() when there is nothing to search.  epsilon is below
\* the lattice resolution and only lets a segment at the same distance win.
RECURSIVE findNearestFrom(_, _, _, _, _, _, _, _)
findNearestFrom(p, it, end, target, max_search_range, searched, min_sq, it_nearest) ==
  IF it >= end THEN it_nearest
  ELSE
    LET inc == Sub(At(p, it).pos_, At(p, it - 1).pos_)
        distance_path_search == searched + Norm(inc)
        d_sq == lineStripDistanceSq(At(p, it - 1).pos_, At(p, it).pos_, target)
    IN  IF max_search_range > 0 /\ distance_path_search > max_search_range
        THEN it_nearest
        ELSE IF d_sq <= min_sq
        THEN findNearestFrom(p, it + 1, end, target, max_search_range,
                             distance_path_search, d_sq, it)
        ELSE findNearestFrom(p, it + 1, end, target, max_search_range,
                             distance_path_search, min_sq, it_nearest)

findNearest(p, begin, end, target, max_search_range) ==
  IF begin = end THEN (IF end = Len(p) THEN Len(p) ELSE end - 1)
  ELSE findNearestFrom(p, begin + 1, end, target, max_search_range, 0,
                       SquaredNorm(Sub(At(p, begin).pos_, target)), begin)

\* Path2D::remainedDistance: arc length from target_on_line to `end' along
\* the path, negative once the target is past the last waypoint before end
RECURSIVE remainedFrom(_, _, _)
remainedFrom(p, it, end) ==
  IF it >= end THEN 0
  ELSE Norm(Sub(At(p, it - 1).pos_, At(p, it).pos_)) + remainedFrom(p, it + 1, end)

remainedDistance(p, nearest, end, target_on_line) ==
  LET remain == Norm(Sub(At(p, nearest).pos_, target_on_line))
  IN  IF nearest + 1 >= end
      THEN IF end - 2 < 0 THEN 0
           ELSE LET vec_path == Sub(At(p, end - 1).pos_, At(p, end - 2).pos_)
                    vec_remain == Sub(At(p, end - 1).pos_, target_on_line)
                IN  IF Dot(vec_path, vec_remain) >= 0 THEN remain ELSE -remain
      ELSE remain + remainedFrom(p, nearest + 1, end)

\* whether waypoints i-2, i-1, i of p make a corner (are not on one line)
Corner(p, i) ==
  LET u == Sub(At(p, i - 1).pos_, At(p, i - 2).pos_)
      v == Sub(At(p, i).pos_, At(p, i - 1).pos_)
  IN  u[1] * v[2] - u[2] * v[1] # 0

\* Path2D::getCurvature: the average curvature of the path from `nearest' to
\* `end'.  Its value on a corner depends on lengths the lattice does not keep:
\* the set of values it may take is given instead, {0} on a straight stretch.
getCurvature(p, nearest, end) ==
  IF \E i \in 2..(Len(p) - 1) : i - 2 >= nearest /\ i < end /\ Corner(p, i)
  THEN {-1, 0, 1} ELSE {0}

----------------------------------------------------------------------------
(* Inputs: path messages, configurations, transforms, odometry *)

\* a pose of a path message; linear_velocity is read for PathWithVelocity only
MsgPose(pos, yaw, velocity) == [pos |-> pos, yaw |-> yaw, linear_velocity |-> velocity]

\* waypoint positions and yaws of the path messages
Shapes ==
  { <<>>,
    << <<0, 0, 2>> >>,
    << <<0, 0, 0>>, <<2, 0, 0>> >>,
    << <<0, 0, 0>>, <<1, 0, 0>>, <<2, 0, 0>>, <<2, 1, 2>> >>,
    << <<0, 0, 0>>, <<1, 0, 0>>, <<1, 0, 2>> >>,
    << <<0, 0, 0>>, <<2, 0, 0>>, <<1, 0, 0>> >>,
    << <<0, 0, 0>>, <<0, 0, 2>>, <<0, 0, 4>> >> }

\* how a PathWithVelocity message fills its velocities
VelocityPatterns == {"fast", "slow", "negative_first", "negative_last"}

PatternVelocity(pattern, i, n) ==
  CASE pattern = "fast" -> 3
    [] pattern = "slow" -> 1
    [] pattern = "negative_first" -> (IF i = 1 THEN -1 ELSE NaN)
    [] OTHER -> (IF i = n THEN -1 ELSE NaN)

\* nav_msgs::Path
PathMsg(frame_id, shape) ==
  [type |-> "Path", header |-> [frame_id |-> frame_id],
   poses |-> [i \in 1..Len(shape) |->
                MsgPose(<<shape[i][1], shape[i][2]>>, shape[i][3], 0)]]

\* trajectory_tracker_msgs::PathWithVelocity
PathWithVelocityMsg(frame_id, shape, pattern) ==
  [type |-> "PathWithVelocity", header |-> [frame_id |-> frame_id],
   poses |-> [i \in 1..Len(shape) |->
                MsgPose(<<shape[i][1], shape[i][2]>>, shape[i][3],
                        PatternVelocity(pattern, i, Len(shape)))]]

PathMsgs ==
  { PathMsg("map", s) : s \in Shapes }
  \cup { PathMsg("", s) : s \in {sh \in Shapes : Len(sh) = 2} }
  \cup { PathWithVelocityMsg("odom", s, vp) :
           s \in {sh \in Shapes : Len(sh) = 2},
           vp \in VelocityPatterns }

\* TrajectoryTrackerConfig: the values cbParameter may be handed
BaseConfig ==
  [k_dist |-> 1, k_ang |-> 1, k_avel |-> 1, gain_at_vel |-> 0,
   dist_lim |-> 1, dist_stop |-> 1, rotate_ang |-> 1,
   max_vel |-> 2, max_angvel |-> 2, max_acc |-> 1, max_angacc |-> 1,
   acc_toc_factor |-> 1, angacc_toc_factor |-> 1, path_step |-> 1,
   goal_tolerance_dist |-> 2, goal_tolerance_ang |-> 1,
   stop_tolerance_dist |-> 2, stop_tolerance_ang |-> 1,
   no_position_control_dist |-> 0, min_tracking_path |-> 0,
   allow_backward |-> TRUE, limit_vel_by_avel |-> FALSE, epsilon |-> 1]

LooseConfig ==
  [BaseConfig EXCEPT !.gain_at_vel = 1, !.dist_stop = 2, !.rotate_ang = 2,
                     !.max_vel = 3, !.max_angvel = 1, !.acc_toc_factor = 2,
                     !.goal_tolerance_ang = 2, !.stop_tolerance_dist = 1,
                     !.min_tracking_path = 1,
                     !.allow_backward = FALSE, !.limit_vel_by_avel = TRUE]

Configs == {BaseConfig, LooseConfig, [BaseConfig EXCEPT !.path_step = 2]}

\* std_msgs::Float32 values of the speed topic
Speeds == {1}

\* the timer period 1.0 / hz_, and max_dt_, in time units
TimerPeriod == 1
MaxDt == 1

\* where a transform puts the look-ahead point `origin' in the path frame
Origins == { <<x, y>> : x \in 0..2, y \in {0, MaxOff} }

\* the yaw of a transform from the path frame to the robot frame
TransYaws == {0, 2}

\* stamps of odometry messages; 0 is ros::Time()
Stamps == 0..MaxStamp

OdomFrames == {"odom"}

----------------------------------------------------------------------------
(* State of TrackerNode *)

VARIABLES
  path_,                 \* Path2D: the stored waypoints
  path_header_,          \* header of the last path message
  path_step_done_,       \* index of the last waypoint passed
  v_lim_, w_lim_,        \* VelAccLimitter values (linear, angular)
  vel_, acc_, acc_toc_,  \* <<linear, angular>> limits
  k_, gain_at_vel_, d_lim_, d_stop_, rotate_ang_,
  goal_tolerance_dist_, goal_tolerance_ang_,
  stop_tolerance_dist_, stop_tolerance_ang_,
  no_pos_cntl_dist_, min_track_path_, path_step_,
  allow_backward_, limit_vel_by_avel_, epsilon_,
  frame_robot_, frame_odom_,
  use_odom_, prev_odom_stamp_,
  pub_vel_,              \* what the last callback published on cmd_vel
  pub_status_,           \* ... on status
  pub_tracking_,         \* ... on tracking (number of messages)
  ev                     \* the last callback, its input and the branches it took

\* the robot the tracker drives, as far as a closed-loop run needs it
VARIABLES
  robot_yaw_             \* yaw of the robot in the frame of the path

\* the execution of the tracker's callbacks, when they are not taken as atomic
VARIABLES
  executing_,              \* the callbacks that have been entered and not left
  parameter_server_mutex_  \* the callback that holds the mutex, or "none"

\* Costmap3DOFNode (costmap_3d.cpp), a node of its own
VARIABLES
  constructed_,          \* the constructor returned (it did not throw)
  ang_resolution_,       \* parameter ang_resolution: map->getAngularGrid()
  overlay_mode_,         \* parameter overlay_mode, as a string
  footprint_,            \* parameter footprint is set
  root_map_,             \* the C-space of root_layer
  layer_map_,            \* the C-space of the overlay layer
  pub_costmap_,          \* what the last callback published on costmap
  pub_costmap_update_,   \* ... on costmap_update
  pub_debug_,            \* ... on debug (number of messages)
  pub_footprint_,        \* ... on footprint (number of messages)
  cev                    \* the last callback of the node, its input, calls and log

\* look_forward_, curv_forward_ and check_old_path_ are not kept: the first is
\* part of the transform a tick is handed (see Frames above), the second of
\* getCurvature's value, the third only selects a log line.
params ==
  <<vel_, acc_, acc_toc_, k_, gain_at_vel_, d_lim_, d_stop_, rotate_ang_,
    goal_tolerance_dist_, goal_tolerance_ang_, stop_tolerance_dist_,
    stop_tolerance_ang_, no_pos_cntl_dist_, min_track_path_, path_step_,
    allow_backward_, limit_vel_by_avel_, epsilon_>>

frames == <<frame_robot_, frame_odom_>>

published == <<pub_vel_, pub_status_, pub_tracking_>>

\* the variables of the tracker node
tracker ==
  <<path_, path_header_, path_step_done_, v_lim_, w_lim_, params, frames,
    use_odom_, prev_odom_stamp_, published, ev>>

\* the variables of the costmap node
costmap ==
  <<constructed_, ang_resolution_, overlay_mode_, footprint_, root_map_,
    layer_map_, pub_costmap_, pub_costmap_update_, pub_debug_, pub_footprint_,
    cev>>

\* the callbacks in progress and the mutex
threads == <<executing_, parameter_server_mutex_>>

vars == <<tracker, threads, robot_yaw_, costmap>>

\* TrackerNode::cbParameter: the assignments, as a predicate on the next state
SetParameters(config) ==
  /\ k_' = <<config.k_dist, config.k_ang, config.k_avel>>
  /\ gain_at_vel_' = config.gain_at_vel
  /\ d_lim_' = config.dist_lim
  /\ d_stop_' = config.dist_stop
  /\ rotate_ang_' = config.rotate_ang
  /\ vel_' = <<config.max_vel, config.max_angvel>>
  /\ acc_' = <<config.max_acc, config.max_angacc>>
  /\ acc_toc_' = <<config.max_acc * config.acc_toc_factor,
                   config.max_angacc * config.angacc_toc_factor>>
  /\ path_step_' = config.path_step
  /\ goal_tolerance_dist_' = config.goal_tolerance_dist
  /\ goal_tolerance_ang_' = config.goal_tolerance_ang
  /\ stop_tolerance_dist_' = config.stop_tolerance_dist
  /\ stop_tolerance_ang_' = config.stop_tolerance_ang
  /\ no_pos_cntl_dist_' = config.no_position_control_dist
  /\ min_track_path_' = config.min_tracking_path
  /\ allow_backward_' = config.allow_backward
  /\ limit_vel_by_avel_' = config.limit_vel_by_avel
  /\ epsilon_' = config.epsilon

\* TrackerNode::TrackerNode: the state after construction; setCallback calls
\* cbParameter once with the configuration the node starts with
Constructed(config, use_odom) ==
    /\ path_ = <<>>
    /\ path_header_ = [frame_id |-> ""]
    /\ path_step_done_ = 0
    /\ v_lim_ = 0
    /\ w_lim_ = 0
    /\ k_ = <<config.k_dist, config.k_ang, config.k_avel>>
    /\ gain_at_vel_ = config.gain_at_vel
    /\ d_lim_ = config.dist_lim
    /\ d_stop_ = config.dist_stop
    /\ rotate_ang_ = config.rotate_ang
    /\ vel_ = <<config.max_vel, config.max_angvel>>
    /\ acc_ = <<config.max_acc, config.max_angacc>>
    /\ acc_toc_ = <<config.max_acc * config.acc_toc_factor,
                    config.max_angacc * config.angacc_toc_factor>>
    /\ path_step_ = config.path_step
    /\ goal_tolerance_dist_ = config.goal_tolerance_dist
    /\ goal_tolerance_ang_ = config.goal_tolerance_ang
    /\ stop_tolerance_dist_ = config.stop_tolerance_dist
    /\ stop_tolerance_ang_ = config.stop_tolerance_ang
    /\ no_pos_cntl_dist_ = config.no_position_control_dist
    /\ min_track_path_ = config.min_tracking_path
    /\ allow_backward_ = config.allow_backward
    /\ limit_vel_by_avel_ = config.limit_vel_by_avel
    /\ epsilon_ = config.epsilon
    /\ frame_robot_ = "base_link"
    /\ frame_odom_ = "odom"
    /\ use_odom_ = use_odom
    /\ prev_odom_stamp_ = 0
    /\ pub_vel_ = <<>>
    /\ pub_status_ = <<>>
    /\ pub_tracking_ = 0
    /\ ev = [cb |-> "init"]

\* a C-space nothing was written to: CSpace3D as its constructor leaves it
EmptyCSpace ==
  [frame_id |-> "", width |-> 0, height |-> 0, lethal |-> {}, sized |-> FALSE]

\* the costmap node not started
CostmapNotStarted ==
  /\ constructed_ = FALSE
  /\ ang_resolution_ = 0
  /\ overlay_mode_ = ""
  /\ footprint_ = FALSE
  /\ root_map_ = EmptyCSpace
  /\ layer_map_ = EmptyCSpace
  /\ pub_costmap_ = <<>>
  /\ pub_costmap_update_ = <<>>
  /\ pub_debug_ = 0
  /\ pub_footprint_ = 0
  /\ cev = [cb |-> "none"]

\* no callback is running: the constructor has released the lock it holds
\* around setCallback
NoneExecuting ==
  /\ executing_ = {}
  /\ parameter_server_mutex_ = "none"

\* the tracker node alone, started with any of the configurations
Init ==
  /\ \E config \in Configs, use_odom \in BOOLEAN : Constructed(config, use_odom)
  /\ NoneExecuting
  /\ robot_yaw_ = 0
  /\ CostmapNotStarted

\* TrackerNode::cbParameter
cbParameter(config) ==
  /\ SetParameters(config)
  /\ pub_vel_' = <<>>
  /\ pub_status_' = <<>>
  /\ pub_tracking_' = 0
  /\ ev' = [cb |-> "cbParameter"]
  /\ UNCHANGED <<path_, path_header_, path_step_done_, v_lim_, w_lim_, frames,
                 use_odom_, prev_odom_stamp_>>

\* TrackerNode::cbSpeed
cbSpeed(data) ==
  /\ vel_' = <<data, vel_[2]>>
  /\ pub_vel_' = <<>>
  /\ pub_status_' = <<>>
  /\ pub_tracking_' = 0
  /\ ev' = [cb |-> "cbSpeed"]
  /\ UNCHANGED <<path_, path_header_, path_step_done_, v_lim_, w_lim_,
                 acc_, acc_toc_, k_, gain_at_vel_, d_lim_, d_stop_, rotate_ang_,
                 goal_tolerance_dist_, goal_tolerance_ang_, stop_tolerance_dist_,
                 stop_tolerance_ang_, no_pos_cntl_dist_, min_track_path_, path_step_,
                 allow_backward_, limit_vel_by_avel_, epsilon_, frames,
                 use_odom_, prev_odom_stamp_>>

\* getVelocity: NaN for a pose of nav_msgs::Path
getVelocity(msg, pose) ==
  IF msg.type = "Path" THEN NaN ELSE pose.linear_velocity

\* inPlaceTurnEnd with a fault: the marker takes the position of the new pose
inPlaceTurnEnd_own_position(back, next) ==
  Pose2D(next.pos_, next.yaw_, next.velocity_)

\* the in-place-turn marker cbPath keeps for a pose too near to path_.back()
inPlaceTurnEnd(back, next) ==
  Pose2D(back.pos_, next.yaw_, next.velocity_)

\* the loop of cbPath over the poses after the first: the path it leaves in
\* path_, which is empty when a negative velocity made it return
RECURSIVE cbPathLoop(_, _, _, _, _, _)
cbPathLoop(msg, j, path, in_place_turn_end, in_place_turning, epsilon) ==
  IF j > Len(msg.poses)
  THEN IF in_place_turning THEN Append(path, in_place_turn_end) ELSE path
  ELSE
    LET velocity == getVelocity(msg, msg.poses[j])
        next == Pose2D(msg.poses[j].pos, msg.poses[j].yaw, velocity)
        back == path[Len(path)]
    IN  IF isfinite(velocity) /\ velocity < 0
        THEN <<>>
        ELSE IF SquaredNorm(Sub(back.pos_, next.pos_)) >= epsilon * epsilon
        THEN cbPathLoop(msg, j + 1,
                        Append(IF in_place_turning
                               THEN Append(path, in_place_turn_end) ELSE path, next),
                        in_place_turn_end, FALSE, epsilon)
        ELSE cbPathLoop(msg, j + 1, path, inPlaceTurnEnd(back, next), TRUE, epsilon)

\* cbPathStored with a fault: the error return leaves out path_.clear(), so
\* the first pose stays
cbPathStored_first_kept(msg, epsilon) ==
  IF Len(msg.poses) = 0 THEN <<>>
  ELSE LET first == <<Pose2D(msg.poses[1].pos, msg.poses[1].yaw,
                             getVelocity(msg, msg.poses[1]))>>
           stored == cbPathLoop(msg, 2, first, Pose2D(<<0, 0>>, 0, 0), FALSE,
                                epsilon)
       IN  IF stored = <<>> THEN first ELSE stored

\* the value of path_ after cbPath(msg)
cbPathStored(msg, epsilon) ==
  IF Len(msg.poses) = 0 THEN <<>>
  ELSE cbPathLoop(msg, 2,
                  <<Pose2D(msg.poses[1].pos, msg.poses[1].yaw,
                           getVelocity(msg, msg.poses[1]))>>,
                  Pose2D(<<0, 0>>, 0, 0), FALSE, epsilon)

\* whether cbPath(msg) takes its error return
cbPathRejects(msg) ==
  \E j \in 2..Len(msg.poses) :
    isfinite(getVelocity(msg, msg.poses[j])) /\ getVelocity(msg, msg.poses[j]) < 0

\* cbPath with a fault: path_.clear() left out at the start, so the new
\* waypoints follow the old ones
cbPath_appends(msg) ==
  /\ path_header_' = msg.header
  /\ path_step_done_' = 0
  /\ path_' = IF cbPathRejects(msg) THEN <<>>
              ELSE path_ \o cbPathStored(msg, epsilon_)
  /\ pub_vel_' = <<>>
  /\ pub_status_' = <<>>
  /\ pub_tracking_' = 0
  /\ ev' = [cb |-> "cbPath", msg |-> msg, rejected |-> cbPathRejects(msg)]
  /\ UNCHANGED <<v_lim_, w_lim_, params, frames, use_odom_, prev_odom_stamp_>>

\* TrackerNode::cbPath
cbPath(msg) ==
  /\ path_header_' = msg.header
  /\ path_step_done_' = 0
  /\ path_' = cbPathStored(msg, epsilon_)
  /\ pub_vel_' = <<>>
  /\ pub_status_' = <<>>
  /\ pub_tracking_' = 0
  /\ ev' = [cb |-> "cbPath", msg |-> msg, rejected |-> cbPathRejects(msg)]
  /\ UNCHANGED <<v_lim_, w_lim_, params, frames, use_odom_, prev_odom_stamp_>>

----------------------------------------------------------------------------
(* TrackerNode::control *)

Twist(linear_x, angular_z) == [linear_x |-> linear_x, angular_z |-> angular_z]

Status(status, distance_remains, angle_remains) ==
  [status |-> status, distance_remains |-> distance_remains,
   angle_remains |-> angle_remains, path_header |-> path_header_]

\* w_lim_.get() * dt * 1.5, rounded toward 0
Times15(x) == IF x < 0 THEN -((3 * (-x)) \div 2) ELSE (3 * x) \div 2

\* the path in the robot frame: every path_step_-th waypoint of path_, its
\* yaw shifted by trans_yaw (its position is kept in the path frame)
RECURSIVE SubSample(_, _, _, _)
SubSample(path, i, step, trans_yaw) ==
  IF i >= Len(path) THEN <<>>
  ELSE <<Pose2D(At(path, i).pos_, trans_yaw + At(path, i).yaw_, At(path, i).velocity_)>>
       \o SubSample(path, i + step, step, trans_yaw)

LocalPath(trans_yaw) == SubSample(path_, 0, path_step_, trans_yaw)

\* the iterator lpath.cbegin() + path_step_done_ is defined
IteratorDefined == path_step_done_ <= Len(LocalPath(0))

\* what a call of control leaves and publishes when it returns before
\* touching anything; the branches of control change the fields they set
NoEffect ==
  [v |-> v_lim_, w |-> w_lim_, step |-> path_step_done_,
   vel |-> <<>>, status |-> <<>>, tracking |-> 0,
   ctl |-> "none", mode |-> "none", local_goal_at_end |-> FALSE,
   far |-> FALSE, limited_by_avel |-> FALSE, stopped |-> FALSE,
   linear_vel |-> NaN]

\* the effect of a call of control with result r, made by callback cb
Controlled(cb, r, dt) ==
  /\ v_lim_' = r.v
  /\ w_lim_' = r.w
  /\ path_step_done_' = r.step
  /\ pub_vel_' = r.vel
  /\ pub_status_' = r.status
  /\ pub_tracking_' = r.tracking
  /\ ev' = [cb |-> cb, ctl |-> r.ctl, mode |-> r.mode, dt |-> dt,
            local_goal_at_end |-> r.local_goal_at_end, far |-> r.far,
            limited_by_avel |-> r.limited_by_avel, stopped |-> r.stopped,
            linear_vel |-> r.linear_vel]

\* noPath with a fault: w_lim_.clear() left out
noPath_angular_kept ==
  [NoEffect EXCEPT !.v = VelAccLimitter_clear,
                   !.vel = <<Twist(0, 0)>>,
                   !.status = <<Status(NO_PATH, 0, 0)>>, !.ctl = "no_path"]

\* the two early returns of control that clear the limiters: no path, and
\* no nearest waypoint
noPath ==
  [NoEffect EXCEPT !.v = VelAccLimitter_clear, !.w = VelAccLimitter_clear,
                   !.vel = <<Twist(0, 0)>>,
                   !.status = <<Status(NO_PATH, 0, 0)>>, !.ctl = "no_path"]

noNearest ==
  [NoEffect EXCEPT !.v = VelAccLimitter_clear, !.w = VelAccLimitter_clear,
                   !.vel = <<Twist(0, 0)>>,
                   !.status = <<Status(NO_PATH, 0, 0)>>, !.ctl = "no_nearest"]

\* stopLinear with a fault: acc_toc_[0] handed over in place of acc_[0]
stopLinear_acc_toc(linear_vel, dt) ==
  VelAccLimitter_set(v_lim_, 0, linear_vel, acc_toc_[1], dt)

\* tfException with a fault: the catch block stops the robot as the
\* no-path return does
tfException_stops ==
  [NoEffect EXCEPT !.v = VelAccLimitter_clear, !.w = VelAccLimitter_clear,
                   !.vel = <<Twist(0, 0)>>,
                   !.status = <<Status(NO_PATH, 0, 0)>>, !.ctl = "tf_exception"]

\* the catch block of control: lookupTransform(frame_odom_, path frame) threw
tfException ==
  [NoEffect EXCEPT !.status = <<Status(NO_PATH, 0, 0)>>, !.ctl = "tf_exception"]

\* "Stop and rotate": v_lim_.set(0.0, linear_vel, acc_[0], dt)
stopLinear(linear_vel, dt) ==
  VelAccLimitter_set(v_lim_, 0, linear_vel, acc_[1], dt)

\* rotateAngular with a fault: capped by vel_[0] in place of vel_[1]
rotateAngular_linear_cap(angle, dt) ==
  VelAccLimitter_set(
    w_lim_, timeOptimalControl(angle + Times15(w_lim_ * dt), acc_toc_[2]),
    vel_[1], acc_[2], dt)

\* rotateAngular with a fault: the sign of timeOptimalControl's value turned
rotateAngular_away(angle, dt) ==
  VelAccLimitter_set(
    w_lim_, -timeOptimalControl(angle + Times15(w_lim_ * dt), acc_toc_[2]),
    vel_[2], acc_[2], dt)

\* "Stop and rotate": w_lim_.set(timeOptimalControl(...), vel_[1], acc_[1], dt)
rotateAngular(angle, dt) ==
  VelAccLimitter_set(
    w_lim_, timeOptimalControl(angle + Times15(w_lim_ * dt), acc_toc_[2]),
    vel_[2], acc_[2], dt)

\* tooFar with a fault: the twist is read from the limiters
tooFar_twist_kept(seen, e) ==
  [seen EXCEPT !.vel = <<Twist(v_lim_, w_lim_)>>,
               !.status = <<Status(FAR_FROM_PATH, e.remain, e.angle)>>,
               !.ctl = "far", !.mode = "follow"]

\* tooFar with a fault: the limiters are cleared as on the no-path return
tooFar_clears(seen, e) ==
  [seen EXCEPT !.v = VelAccLimitter_clear, !.w = VelAccLimitter_clear,
               !.vel = <<Twist(0, 0)>>,
               !.status = <<Status(FAR_FROM_PATH, e.remain, e.angle)>>,
               !.ctl = "far", !.mode = "follow"]

\* "Too far from given path": a zero twist and FAR_FROM_PATH, the limiters
\* and the progress index as they were
tooFar(seen, e) ==
  [seen EXCEPT !.vel = <<Twist(0, 0)>>,
               !.status = <<Status(FAR_FROM_PATH, e.remain, e.angle)>>,
               !.ctl = "far", !.mode = "follow"]

\* stopTolerated with a fault: the two stop tolerances swapped
stopTolerated_swapped(distance_remains, angle_remains) ==
  /\ Abs(distance_remains) < stop_tolerance_ang_
  /\ Abs(angle_remains) < stop_tolerance_dist_

\* "Stop velocity commands": the condition under which both limiters are cleared
stopTolerated(distance_remains, angle_remains) ==
  /\ Abs(distance_remains) < stop_tolerance_dist_
  /\ Abs(angle_remains) < stop_tolerance_ang_

\* goalTolerated with a fault: the local goal is not looked at
goalTolerated_anywhere(distance_remains, angle_remains, local_goal_at_end) ==
  /\ Abs(distance_remains) < goal_tolerance_dist_
  /\ Abs(angle_remains) < goal_tolerance_ang_

\* the condition under which the status is GOAL rather than FOLLOWING
goalTolerated(distance_remains, angle_remains, local_goal_at_end) ==
  /\ Abs(distance_remains) < goal_tolerance_dist_
  /\ Abs(angle_remains) < goal_tolerance_ang_
  /\ local_goal_at_end

\* stepDone with a fault: the index is not kept from going back
stepDone_nearest(arrive_local_goal, i_local_goal, i_nearest) ==
  IF arrive_local_goal THEN i_local_goal ELSE i_nearest - 1

\* the progress index a tick leaves when it reaches the end of control
stepDone(arrive_local_goal, i_local_goal, i_nearest) ==
  IF arrive_local_goal THEN i_local_goal ELSE Max(path_step_done_, i_nearest - 1)

\* anglePose with a fault: the stored yaw is used whatever allow_backward_
anglePose_stored_yaw(yaw, angle) == yaw

\* angle_pose: the yaw the segment heading is compared with, the waypoint's
\* when the robot may go backward and else the heading itself
anglePose(yaw, angle) == IF allow_backward_ THEN yaw ELSE -angle

\* control, once the nearest waypoint is found: the errors it measures
\* against the path
controlErrors(lpath, i_local_goal, i_nearest, origin, trans_yaw) ==
  LET i_nearest_prev == Max(0, i_nearest - 1)
      path_length == length(lpath)
      pos_on_line == projection2d(At(lpath, i_nearest_prev).pos_,
                                  At(lpath, i_nearest).pos_, origin)
      no_pos_cntl == path_length < no_pos_cntl_dist_
      dist_err == lineDistance(At(lpath, i_nearest_prev).pos_,
                               At(lpath, i_nearest).pos_, origin)
      vec == Sub(At(lpath, i_nearest).pos_, At(lpath, i_nearest_prev).pos_)
      angle0 == -Heading(vec, trans_yaw)
      angle_pose == anglePose(At(lpath, i_nearest).yaw_, angle0)
      backward == Cos(-angle0) * Cos(angle_pose)
                    + Sin(-angle0) * Sin(angle_pose) < 0
      angle1 == angleNormalized(IF backward THEN angle0 + PiU ELSE angle0)
      \* abs(dist_from_path) > d_stop_; the norm is compared by its square
      at_an_end == i_nearest = 0 \/ i_nearest + 1 >= Len(path_)
  IN  [path_length |-> path_length,
       linear_vel |-> IF isnan(At(lpath, i_nearest).velocity_)
                      THEN vel_[1] ELSE At(lpath, i_nearest).velocity_,
       remain_local |-> IF no_pos_cntl THEN 0
                        ELSE remainedDistance(lpath, i_nearest, i_local_goal,
                                              pos_on_line),
       remain |-> IF no_pos_cntl THEN 0
                  ELSE remainedDistance(lpath, i_nearest, Len(lpath), pos_on_line),
       dist_err |-> dist_err,
       sign_vel |-> IF backward THEN -1 ELSE 1,
       angle |-> angle1,
       in_place_turning |-> vec = <<0, 0>>,
       large_angle_error |-> Abs(rotate_ang_) < PiU /\ Cos(rotate_ang_) > Cos(angle1),
       far |-> IF at_an_end
               THEN d_stop_ < 0
                    \/ SquaredNorm(Sub(At(lpath, i_nearest).pos_, origin))
                         > d_stop_ * d_stop_
               ELSE Abs(dist_err) > d_stop_,
       goal_yaw |-> At(lpath, i_local_goal - 1).yaw_,
       local_goal_at_end |-> i_local_goal = Len(lpath)]

\* control, from the choice of the control mode to the end: the new limiter
\* values and progress index, what is published, and the branches taken.
\* e is controlErrors' record, curv the value of getCurvature.
controlLaw(e, i_local_goal, i_nearest, curv, dt) ==
  LET seen == [NoEffect EXCEPT !.far = e.far, !.linear_vel = e.linear_vel,
                               !.local_goal_at_end = e.local_goal_at_end]
  IN
  IF e.large_angle_error \/ Abs(e.remain_local) < stop_tolerance_dist_
       \/ e.path_length < min_track_path_ \/ e.in_place_turning
  THEN
    \* Stop and rotate
    LET to_goal_yaw == e.path_length < min_track_path_
                         \/ Abs(e.remain_local) < stop_tolerance_dist_
                         \/ e.in_place_turning
        angle == IF to_goal_yaw THEN angleNormalized(-e.goal_yaw) ELSE e.angle
        arrive_local_goal == to_goal_yaw /\ ~e.local_goal_at_end
        v1 == stopLinear(e.linear_vel, dt)
        w1 == rotateAngular(angle, dt)
        remain == IF e.path_length < stop_tolerance_dist_ \/ e.in_place_turning
                  THEN 0 ELSE e.remain
        stop == stopTolerated(remain, angle)
        goal == goalTolerated(remain, angle, e.local_goal_at_end)
    IN  [seen EXCEPT !.v = IF stop THEN VelAccLimitter_clear ELSE v1,
                     !.w = IF stop THEN VelAccLimitter_clear ELSE w1,
                     !.step = stepDone(arrive_local_goal, i_local_goal, i_nearest),
                     !.vel = <<Twist(IF stop THEN VelAccLimitter_clear ELSE v1,
                                     IF stop THEN VelAccLimitter_clear ELSE w1)>>,
                     !.status = <<Status(IF goal THEN GOAL ELSE FOLLOWING,
                                         remain, angle)>>,
                     !.tracking = 1, !.ctl = "emit", !.mode = "rotate",
                     !.stopped = stop]
  ELSE IF e.far
  THEN
    tooFar(seen, e)
  ELSE
    \* Path following control
    LET dist_err_clip == clip(e.dist_err, d_lim_)
        v1 == VelAccLimitter_set(
                v_lim_,
                timeOptimalControl(-e.remain_local * e.sign_vel, acc_toc_[1]),
                e.linear_vel, acc_[1], dt)
        wref1 == Abs(v1) * curv
        limit == limit_vel_by_avel_ /\ Abs(wref1) > vel_[2]
        v2 == IF limit
              THEN VelAccLimitter_set(
                     v1, Sign1(v1) * (Abs(vel_[2]) \div Abs(curv)),
                     e.linear_vel, acc_[1], dt)
              ELSE v1
        wref == IF limit THEN Sign1(wref1) * vel_[2] ELSE wref1
        k_ang == IF gain_at_vel_ = 0 THEN k_[2]
                 ELSE (k_[2] * e.linear_vel) \div gain_at_vel_
        w1 == VelAccLimitter_increment(
                w_lim_,
                dt * (-dist_err_clip * k_[1] - e.angle * k_ang
                        - (w_lim_ - wref) * k_[3]),
                vel_[2], acc_[2], dt)
        stop == stopTolerated(e.remain, e.angle)
        goal == goalTolerated(e.remain, e.angle, e.local_goal_at_end)
    IN  [seen EXCEPT !.v = IF stop THEN VelAccLimitter_clear ELSE v2,
                     !.w = IF stop THEN VelAccLimitter_clear ELSE w1,
                     !.step = stepDone(FALSE, i_local_goal, i_nearest),
                     !.vel = <<Twist(IF stop THEN VelAccLimitter_clear ELSE v2,
                                     IF stop THEN VelAccLimitter_clear ELSE w1)>>,
                     !.status = <<Status(IF goal THEN GOAL ELSE FOLLOWING,
                                         e.remain, e.angle)>>,
                     !.tracking = 1, !.ctl = "emit", !.mode = "follow",
                     !.limited_by_avel = limit, !.stopped = stop]

\* TrackerNode::control, called by callback cb.  origin and trans_yaw give the
\* transform (see Frames), tf_ok whether lookupTransform(frame_odom_, path
\* frame) succeeds.
control(cb, origin, trans_yaw, tf_ok, dt) ==
  IF path_header_.frame_id = "" \/ Len(path_) = 0
  THEN Controlled(cb, noPath, dt)
  ELSE IF ~tf_ok
  THEN Controlled(cb, tfException, dt)
  ELSE
    \E lpath \in {LocalPath(trans_yaw)} :
    \E i_local_goal \in {findLocalGoal(lpath, path_step_done_, allow_backward_,
                                       trans_yaw)} :
    \E i_nearest \in {findNearest(lpath, path_step_done_, i_local_goal, origin,
                                  IF path_step_done_ > 0 THEN 1 ELSE 0)} :
      IF i_nearest = Len(lpath)
      THEN Controlled(cb, noNearest, dt)
      ELSE
        \E e \in {controlErrors(lpath, i_local_goal, i_nearest, origin, trans_yaw)} :
        \E curv \in getCurvature(lpath, i_nearest, i_local_goal) :
        \E r \in {controlLaw(e, i_local_goal, i_nearest, curv, dt)} :
          Controlled(cb, r, dt)

----------------------------------------------------------------------------
(* The tick callbacks *)

\* What the transform lookups of a tick give: lookupTransform(frame_robot_,
\* frame_odom_) throws ("robot_exception", in cbTimer only), or
\* lookupTransform(frame_odom_, path frame) throws ("path_exception"), or
\* both succeed and the transform is the one given by origin and trans_yaw.
Lookups(outcomes) ==
  { [tf |-> o, origin |-> <<0, 0>>, trans_yaw |-> 0] :
      o \in outcomes \ {"ok"} }
  \cup { [tf |-> "ok", origin |-> p, trans_yaw |-> y] :
           p \in Origins, y \in TransYaws }

\* cbTimer with a fault: the catch block publishes no status
cbTimer_silent_catch(in) ==
  /\ ~use_odom_
  /\ IteratorDefined
  /\ IF in.tf # "robot_exception"
     THEN control("cbTimer", in.origin, in.trans_yaw, in.tf = "ok", TimerPeriod)
     ELSE /\ pub_status_' = <<>>
          /\ pub_vel_' = <<>>
          /\ pub_tracking_' = 0
          /\ ev' = [cb |-> "cbTimer", ctl |-> "tf_exception_timer", mode |-> "none",
                    dt |-> TimerPeriod, local_goal_at_end |-> FALSE, far |-> FALSE,
                    limited_by_avel |-> FALSE, stopped |-> FALSE, linear_vel |-> NaN]
          /\ UNCHANGED <<v_lim_, w_lim_, path_step_done_>>
  /\ UNCHANGED <<path_, path_header_, params, frames, use_odom_, prev_odom_stamp_>>

\* TrackerNode::cbTimer; spin() creates the timer only when use_odom_ is false
cbTimer(in) ==
  /\ ~use_odom_
  /\ IteratorDefined
  /\ IF in.tf # "robot_exception"
     THEN control("cbTimer", in.origin, in.trans_yaw, in.tf = "ok", TimerPeriod)
     ELSE /\ pub_status_' = <<Status(NO_PATH, 0, 0)>>
          /\ pub_vel_' = <<>>
          /\ pub_tracking_' = 0
          /\ ev' = [cb |-> "cbTimer", ctl |-> "tf_exception_timer", mode |-> "none",
                    dt |-> TimerPeriod, local_goal_at_end |-> FALSE, far |-> FALSE,
                    limited_by_avel |-> FALSE, stopped |-> FALSE, linear_vel |-> NaN]
          /\ UNCHANGED <<v_lim_, w_lim_, path_step_done_>>
  /\ UNCHANGED <<path_, path_header_, params, frames, use_odom_, prev_odom_stamp_>>

\* TrackerNode::cbOdometry: the constructor subscribes to odom only when
\* use_odom_ is true.  origin and trans_yaw give the transform built from the
\* message's pose (advanced by predict_dt when predict_odom_ is set).
cbOdometry(frame_id, child_frame_id, stamp, in) ==
  /\ use_odom_
  /\ IteratorDefined
  /\ frame_odom_' = frame_id
  /\ frame_robot_' = child_frame_id
  /\ IF prev_odom_stamp_ # 0
     THEN control("cbOdometry", in.origin, in.trans_yaw, in.tf = "ok",
                  Min(MaxDt, stamp - prev_odom_stamp_))
     ELSE /\ pub_status_' = <<>>
          /\ pub_vel_' = <<>>
          /\ pub_tracking_' = 0
          /\ ev' = [cb |-> "cbOdometry", ctl |-> "none", mode |-> "none",
                    dt |-> 0, local_goal_at_end |-> FALSE, far |-> FALSE,
                    limited_by_avel |-> FALSE, stopped |-> FALSE, linear_vel |-> NaN]
          /\ UNCHANGED <<v_lim_, w_lim_, path_step_done_>>
  /\ prev_odom_stamp_' = stamp
  /\ UNCHANGED <<path_, path_header_, params, use_odom_>>

----------------------------------------------------------------------------
(* The node: callbacks run one at a time, in any order.  The environment
   hands cbParameter the path_step the node started with, and delivers
   odometry messages in the order of their stamps. *)

\* what a callback of the tracker node, run from start to end in one step,
\* leaves as it was
outside == <<threads, robot_yaw_, costmap>>

Next ==
  \/ \E msg \in PathMsgs : cbPath(msg) /\ UNCHANGED outside
  \/ \E data \in Speeds : cbSpeed(data) /\ UNCHANGED outside
  \/ \E config \in Configs :
       config.path_step = path_step_ /\ cbParameter(config) /\ UNCHANGED outside
  \/ \E in \in Lookups({"robot_exception", "path_exception", "ok"}) :
       cbTimer(in) /\ UNCHANGED outside
  \/ \E frame_id \in OdomFrames, stamp \in Stamps,
        in \in Lookups({"path_exception", "ok"}) :
       /\ stamp >= prev_odom_stamp_
       /\ cbOdometry(frame_id, "base_link", stamp, in)
       /\ UNCHANGED outside

Spec == Init /\ [][Next]_vars

----------------------------------------------------------------------------
(* cbPath on finely spaced paths: poses one length unit apart under an
   epsilon of one or two units, so that a pose can be nearer than epsilon to
   its predecessor without being at the same place. *)

\* the number of poses of a finely spaced path message
MaxPoses == 3

\* PathWithVelocity messages of up to MaxPoses poses along the x axis; the
\* velocity of a pose is its index, which tells the poses apart, and each
\* pose has a yaw of its own
FinePathMsgs ==
  UNION { { [type |-> "PathWithVelocity", header |-> [frame_id |-> "map"],
             poses |-> [j \in 1..n |-> MsgPose(<<xs[j], 0>>, angleNormalized(j - 1), j)]] :
              xs \in [1..n -> 0..2] } :
          n \in 1..MaxPoses }

\* configurations that differ in epsilon only
EpsilonConfigs == { [BaseConfig EXCEPT !.epsilon = e] : e \in {1, 2} }

NextPath ==
  \/ \E msg \in FinePathMsgs : cbPath(msg) /\ UNCHANGED outside
  \/ \E config \in EpsilonConfigs : cbParameter(config) /\ UNCHANGED outside

SpecPath == Init /\ [][NextPath]_vars

----------------------------------------------------------------------------
(* Properties.  A tick is a run of cbTimer or cbOdometry; ev tells which
   callback ran last and the branches it took. *)

Tick == ev.cb \in {"cbTimer", "cbOdometry"}

\* the tick called control: the timer's first lookup did not throw, and the
\* odometry message was not the first one
ControlCalled == Tick /\ ev.ctl \notin {"none", "tf_exception_timer"}

\* control found a nearest waypoint
NearestFound == ControlCalled /\ ev.ctl \in {"far", "emit"}

\* control cleared the limiters: no path, no nearest waypoint, or the stop
\* tolerances were met
Cleared == ev.ctl \in {"no_path", "no_nearest"} \/ (ev.ctl = "emit" /\ ev.stopped)

\* C1 (as stated): in every call of control with step dt the linear limiter
\* value changes by at most acc[0]*dt and the angular one by at most
\* acc[1]*dt, on every path through control.
C1_AsStated ==
  [][ControlCalled' =>
       /\ Abs(v_lim_' - v_lim_) <= acc_[1] * ev'.dt
       /\ Abs(w_lim_' - w_lim_) <= acc_[2] * ev'.dt]_vars

\* C1 (amended): in every call of control that does not clear the limiters,
\* the angular limiter value changes by at most acc[1]*dt and the linear one
\* by at most acc[0]*dt, or by at most 2*acc[0]*dt when the limit_vel_by_avel
\* branch set the linear limiter a second time.
C1_RateLimitedUnlessCleared ==
  [][(ControlCalled' /\ ~Cleared') =>
       /\ Abs(v_lim_' - v_lim_)
            <= (IF ev'.limited_by_avel THEN 2 ELSE 1) * acc_[1] * ev'.dt
       /\ Abs(w_lim_' - w_lim_) <= acc_[2] * ev'.dt]_vars

\* a tick of path following that took the limit_vel_by_avel branch, did not
\* clear the limiters, and left a linear velocity
C1_Witness ==
  /\ ControlCalled /\ ~Cleared
  /\ ev.mode = "follow" /\ ev.limited_by_avel /\ ev.dt > 0
  /\ v_lim_ # 0

\* C2 (as stated): after every tick |v_lim| <= vel[0], |v_lim| <= the nearest
\* waypoint's velocity when it is specified, and |w_lim| <= vel[1].
C2_AsStated ==
  Tick =>
    /\ Abs(v_lim_) <= vel_[1]
    /\ (NearestFound => Abs(v_lim_) <= ev.linear_vel)
    /\ Abs(w_lim_) <= vel_[2]

\* C2 (amended): a call of control never takes a limiter value out of its
\* cap: when a nearest waypoint is found and |v_lim| is within the cap of the
\* tick (the waypoint's velocity when specified, else vel[0]) before the
\* call, it is within it after; when |w_lim| is within vel[1] before the
\* call, it is within it after.
C2_StaysWithinCap ==
  [][ControlCalled' =>
       /\ (NearestFound' /\ Abs(v_lim_) <= ev'.linear_vel)
            => Abs(v_lim_') <= ev'.linear_vel
       /\ Abs(w_lim_) <= vel_[2] => Abs(w_lim_') <= vel_[2]]_vars

\* path following at the cap given by a waypoint velocity, with an angular
\* velocity at its cap
C2_Witness ==
  /\ NearestFound /\ ev.mode = "follow" /\ ~Cleared
  /\ v_lim_ = ev.linear_vel /\ ev.linear_vel # vel_[1]
  /\ Abs(w_lim_) = vel_[2]

\* C3 (as stated): in any tick in which a nearest waypoint exists and
\* |dist_from_path| > d_stop, the twist is (0, 0) and the status is
\* FAR_FROM_PATH, whichever control mode the other conditions select.
C3_AsStated ==
  (NearestFound /\ ev.far) =>
    /\ pub_vel_ = <<Twist(0, 0)>>
    /\ Len(pub_status_) = 1 /\ pub_status_[1].status = FAR_FROM_PATH

\* C3 (amended): in any tick in which a nearest waypoint exists, none of the
\* conditions of "Stop and rotate" holds and |dist_from_path| > d_stop, the
\* twist is (0, 0) and the status is FAR_FROM_PATH.
C3_FarWhenFollowing ==
  (NearestFound /\ ev.far /\ ev.mode = "follow") =>
    /\ pub_vel_ = <<Twist(0, 0)>>
    /\ Len(pub_status_) = 1 /\ pub_status_[1].status = FAR_FROM_PATH

\* the robot leaves the path while it moves: a far tick with the limiters
\* not at rest
C3_Witness ==
  /\ NearestFound /\ ev.far /\ ev.mode = "follow"
  /\ v_lim_ # 0

\* C4 (as stated): while the stored path is empty every tick publishes twist
\* (0, 0) and status NO_PATH and leaves both limiters at 0.
C4_AsStated ==
  (Tick /\ Len(path_) = 0) =>
    /\ pub_vel_ = <<Twist(0, 0)>>
    /\ Len(pub_status_) = 1 /\ pub_status_[1].status = NO_PATH
    /\ v_lim_ = 0 /\ w_lim_ = 0

\* C4 (amended): while the stored path is empty every tick that calls
\* control publishes twist (0, 0) and status NO_PATH and leaves both
\* limiters at 0.
C4_EmptyPathStops ==
  [][(ControlCalled' /\ Len(path_) = 0) =>
       /\ pub_vel_' = <<Twist(0, 0)>>
       /\ Len(pub_status_') = 1 /\ pub_status_'[1].status = NO_PATH
       /\ v_lim_' = 0 /\ w_lim_' = 0]_vars

\* a tick on an empty path that replaced a path with a frame, as the last
\* published header tells
C4_Witness ==
  /\ ControlCalled /\ Len(path_) = 0
  /\ path_header_.frame_id # ""
  /\ pub_vel_ = <<Twist(0, 0)>>

\* the waypoint w is the message pose q as cbPath reads it
FromPose(msg, w, q) ==
  /\ w.pos_ = q.pos
  /\ w.yaw_ = q.yaw
  /\ w.velocity_ = getVelocity(msg, q)

\* every waypoint of path is a pose of msg, in the order of the message
DerivedInOrder(path, msg) ==
  \E f \in [1..Len(path) -> 1..Len(msg.poses)] :
    /\ \A k \in 1..Len(path) : FromPose(msg, path[k], msg.poses[f[k]])
    /\ \A k \in 1..(Len(path) - 1) : f[k] < f[k + 1]

\* C5: after any accepted path message the stored path holds only waypoints
\* derived from that message, in message order, under the header of that
\* message, and path_step_done is 0.
C5_PathReplaced ==
  (ev.cb = "cbPath" /\ ~ev.rejected) =>
    /\ DerivedInOrder(path_, ev.msg)
    /\ (Len(ev.msg.poses) > 0 => Len(path_) > 0)
    /\ path_header_ = ev.msg.header
    /\ path_step_done_ = 0

\* a path accepted while the tracker was moving along an earlier one, some
\* of its poses collapsed
C5_Witness ==
  /\ ev.cb = "cbPath" /\ ~ev.rejected
  /\ Len(path_) >= 2 /\ Len(path_) < Len(ev.msg.poses)
  /\ v_lim_ # 0

\* the message carries a negative explicit velocity at some index
HasNegativeVelocity(msg) ==
  \E i \in 1..Len(msg.poses) :
    isfinite(getVelocity(msg, msg.poses[i])) /\ getVelocity(msg, msg.poses[i]) < 0

\* C6 (as stated): a path message in which any waypoint, at any index
\* including the first, carries a negative explicit velocity is rejected as
\* a whole: none of its waypoints is stored.
C6_AsStated ==
  (ev.cb = "cbPath" /\ HasNegativeVelocity(ev.msg)) => path_ = <<>>

\* C7 (as stated): when a path message is rejected because of a negative
\* velocity, the stored path, the path header and path_step_done after the
\* message equal their values before it.
C7_AsStated ==
  [][(ev'.cb = "cbPath" /\ ev'.rejected) =>
       UNCHANGED <<path_, path_header_, path_step_done_>>]_vars

\* C7 (amended): when a path message is rejected because of a negative
\* velocity, the stored path is left empty, the path header is the one of
\* the rejected message and path_step_done is 0; the limiters and the
\* parameters keep their values.
C7_RejectionClears ==
  [][(ev'.cb = "cbPath" /\ ev'.rejected) =>
       /\ path_' = <<>>
       /\ path_header_' = ev'.msg.header
       /\ path_step_done_' = 0
       /\ UNCHANGED <<v_lim_, w_lim_, params>>]_vars

\* a message rejected while the tracker was moving along a path in another
\* frame
C7_Witness ==
  /\ ev.cb = "cbPath" /\ ev.rejected
  /\ v_lim_ # 0
  /\ path_ = <<>> /\ path_header_.frame_id = "odom"

\* C8 (as stated): each timer event and each odometry message results in
\* exactly one publication on the status topic.
C8_AsStated == Tick => Len(pub_status_) = 1

\* C8 (amended): each timer event results in exactly one publication on the
\* status topic; the first odometry message (no stamp recorded yet) results
\* in none, every other odometry message in exactly one.
C8_OneStatusButFirstOdom ==
  [][/\ ev'.cb = "cbTimer" => Len(pub_status_') = 1
     /\ ev'.cb = "cbOdometry" =>
          Len(pub_status_') = (IF prev_odom_stamp_ = 0 THEN 0 ELSE 1)]_vars

\* the first odometry message after a path was stored: no status
C8_Witness ==
  /\ ev.cb = "cbOdometry" /\ Len(pub_status_) = 0
  /\ Len(path_) > 0 /\ prev_odom_stamp_ > 0

\* C9: GOAL is published only by a tick that reached the final emit step
\* with |distance_remains| < goal_tolerance_dist, |angle_remains| <
\* goal_tolerance_ang and the local goal at the end of the path; every other
\* tick that reaches the emit step publishes FOLLOWING.
C9_GoalOnlyWithinTolerance ==
  (Tick /\ Len(pub_status_) = 1) =>
    LET status == pub_status_[1]
        within == /\ Abs(status.distance_remains) < goal_tolerance_dist_
                  /\ Abs(status.angle_remains) < goal_tolerance_ang_
                  /\ ev.local_goal_at_end
    IN  /\ status.status = GOAL => (ev.ctl = "emit" /\ within)
        /\ (ev.ctl = "emit" /\ ~within) => status.status = FOLLOWING

\* a tick at the emit step that meets both tolerances before a switch-back:
\* the local goal is not the end of the path, and the status is FOLLOWING
C9_Witness ==
  /\ Tick /\ ev.ctl = "emit"
  /\ pub_status_[1].status = FOLLOWING
  /\ Abs(pub_status_[1].distance_remains) < goal_tolerance_dist_
  /\ Abs(pub_status_[1].angle_remains) < goal_tolerance_ang_
  /\ ~ev.local_goal_at_end

\* C10 (as stated): in every tick that publishes status GOAL the twist
\* published in the same tick is (0, 0), for any goal and stop tolerances.
C10_AsStated ==
  (Tick /\ Len(pub_status_) = 1 /\ pub_status_[1].status = GOAL) =>
    pub_vel_ = <<Twist(0, 0)>>

\* C10 (amended): in every tick that publishes status GOAL while the goal
\* tolerances do not exceed the stop tolerances, the twist published in the
\* same tick is (0, 0).
C10_GoalStopsWhenTolerancesAgree ==
  (/\ Tick /\ Len(pub_status_) = 1 /\ pub_status_[1].status = GOAL
   /\ goal_tolerance_dist_ <= stop_tolerance_dist_
   /\ goal_tolerance_ang_ <= stop_tolerance_ang_) =>
    pub_vel_ = <<Twist(0, 0)>>

\* GOAL on a path of several waypoints, the limiters cleared by the stop
\* tolerances
C10_Witness ==
  /\ Tick /\ Len(pub_status_) = 1 /\ pub_status_[1].status = GOAL
  /\ goal_tolerance_dist_ <= stop_tolerance_dist_
  /\ goal_tolerance_ang_ <= stop_tolerance_ang_
  /\ ev.stopped /\ Len(path_) >= 2 /\ path_step_done_ > 0

\* the tick ended in a failed transform lookup, in cbTimer or in control
LookupFailed == Tick /\ ev.ctl \in {"tf_exception", "tf_exception_timer"}

\* C11: a tick in which a transform lookup fails, in cbTimer or inside
\* control, while the stored path is not empty publishes one NO_PATH status
\* and no twist and leaves v_lim, w_lim, path_step_done and the stored path
\* unchanged.
C11_LookupFailureLeavesState ==
  [][(LookupFailed' /\ Len(path_) > 0) =>
       /\ Len(pub_status_') = 1 /\ pub_status_'[1].status = NO_PATH
       /\ pub_vel_' = <<>>
       /\ UNCHANGED <<v_lim_, w_lim_, path_step_done_, path_>>]_vars

\* a lookup that fails inside control while the robot moves along a path it
\* has made progress on
C11_Witness ==
  /\ Tick /\ ev.ctl = "tf_exception"
  /\ Len(path_) > 0 /\ v_lim_ # 0 /\ w_lim_ # 0 /\ path_step_done_ > 0

----------------------------------------------------------------------------
(* A turn in place in closed loop: the tracker runs on its timer, is handed
   one path of a single waypoint, and the robot stands on the waypoint and
   turns by what cmd_vel commands. *)

\* the yaws of a robot or a waypoint, in units of pi/4
Yaws == (1 - PiU)..PiU

\* the configurations of the closed-loop run: as BaseConfig and LooseConfig,
\* and with a stop tolerance wider than the goal tolerance
TurnConfigs ==
  {BaseConfig, LooseConfig, [BaseConfig EXCEPT !.stop_tolerance_ang = 2]}

\* nav_msgs/Path messages of one pose at the origin
TurnPathMsgs ==
  { PathMsg("map", << <<0, 0, yaw>> >>) : yaw \in Yaws }

InitTurn ==
  /\ \E config \in TurnConfigs : Constructed(config, FALSE)
  /\ NoneExecuting
  /\ robot_yaw_ \in Yaws
  /\ CostmapNotStarted

\* the one path message of the run
TurnPath ==
  /\ ev.cb = "init"
  /\ \E msg \in TurnPathMsgs : cbPath(msg)
  /\ UNCHANGED outside

\* a timer tick with the robot on the waypoint; the robot then turns for one
\* timer period at the angular velocity the tick left in w_lim_ (cmd_vel)
TurnTick ==
  /\ cbTimer([tf |-> "ok", origin |-> <<0, 0>>, trans_yaw |-> -robot_yaw_])
  /\ robot_yaw_' = angleNormalized(robot_yaw_ + w_lim_' * TimerPeriod)
  /\ UNCHANGED <<threads, costmap>>

NextTurn == TurnPath \/ TurnTick

\* spin() creates the timer with period 1 / hz and ros::spin() runs its
\* callback for as long as the node lives: ticks never stop
SpecTurn == InitTurn /\ [][NextTurn]_vars /\ WF_vars(TurnTick)

----------------------------------------------------------------------------
(* The callbacks of the tracker as ros::spin() runs them: a callback is
   entered, then it does its work and is left. *)

Callbacks == {"cbPath", "cbSpeed", "cbParameter", "cbTimer", "cbOdometry"}

\* spinnerIdle with a fault: callbacks are run by two worker threads
spinnerIdle_worker_threads == Cardinality(executing_) < 2

\* ros::spin() calls the callbacks from the one thread that called it: it
\* takes the next callback from the queue when the last one has returned
spinnerIdle == executing_ = {}

\* the scoped_lock a callback takes as it is entered: cbParameter locks
\* parameter_server_mutex_, the other callbacks lock nothing
Locks(cb) == cb = "cbParameter"

\* a callback is entered
Enter(cb) ==
  /\ spinnerIdle
  /\ cb \notin executing_
  /\ Locks(cb) => parameter_server_mutex_ = "none"
  /\ executing_' = executing_ \cup {cb}
  /\ parameter_server_mutex_' = IF Locks(cb) THEN cb ELSE parameter_server_mutex_
  /\ UNCHANGED <<tracker, robot_yaw_, costmap>>

\* the transforms handed to the ticks of SpecSpin
SpinLookups ==
  { [tf |-> o, origin |-> <<0, 0>>, trans_yaw |-> y] :
      o \in {"path_exception", "ok"}, y \in TransYaws }

\* what callback cb does to the tracker, on some input
Work(cb) ==
  CASE cb = "cbPath" ->
         \E msg \in { PathMsg("map", s) : s \in {sh \in Shapes : Len(sh) <= 2} } :
           cbPath(msg)
    [] cb = "cbSpeed" -> \E data \in Speeds : cbSpeed(data)
    [] cb = "cbParameter" -> \E config \in {BaseConfig, LooseConfig} : cbParameter(config)
    [] cb = "cbTimer" -> \E in \in SpinLookups : cbTimer(in)
    [] OTHER ->
         \E stamp \in Stamps, in \in SpinLookups :
           stamp >= prev_odom_stamp_ /\ cbOdometry("odom", "base_link", stamp, in)

\* a callback does its work and returns; a scoped_lock is released
Leave(cb) ==
  /\ cb \in executing_
  /\ Work(cb)
  /\ executing_' = executing_ \ {cb}
  /\ parameter_server_mutex_' =
       IF parameter_server_mutex_ = cb THEN "none" ELSE parameter_server_mutex_
  /\ UNCHANGED <<robot_yaw_, costmap>>

NextSpin ==
  \/ \E cb \in Callbacks : Enter(cb)
  \/ \E cb \in Callbacks : Leave(cb)

SpecSpin == Init /\ [][NextSpin]_vars

----------------------------------------------------------------------------
(* The tracker on its timer when cbParameter may be handed any path_step:
   the environment of Spec without its assumption on path_step. *)

\* a timer tick that finds path_step_done_ beyond the local path: the
\* iterator lpath.cbegin() + path_step_done_ is past lpath.cend() and what
\* findLocalGoal and findNearest make of it is undefined.  The tick may end as
\* one that found no nearest waypoint, or leave any progress index.
cbTimerOutOfRange ==
  /\ ~use_odom_
  /\ path_header_.frame_id # "" /\ Len(path_) > 0
  /\ ~IteratorDefined
  /\ \E step \in 0..Len(path_), r \in {noNearest, NoEffect} :
       Controlled("cbTimer", [r EXCEPT !.ctl = "out_of_range", !.step = step],
                  TimerPeriod)
  /\ UNCHANGED <<path_, path_header_, params, frames, use_odom_, prev_odom_stamp_>>

\* the configurations of Spec, and one that keeps every fourth waypoint
StepConfigs == Configs \cup {[BaseConfig EXCEPT !.path_step = 4]}

NextStep ==
  \/ \E msg \in { PathMsg("map", s) : s \in Shapes } : cbPath(msg) /\ UNCHANGED outside
  \/ \E config \in StepConfigs : cbParameter(config) /\ UNCHANGED outside
  \/ \E in \in Lookups({"path_exception", "ok"}) : cbTimer(in) /\ UNCHANGED outside
  \/ cbTimerOutOfRange /\ UNCHANGED outside

SpecStep == Init /\ [][NextStep]_vars

----------------------------------------------------------------------------
(* costmap_3d.cpp: Costmap3DOFNode.  A C-space is kept as its frame, its size
   and the set of its lethal cells; the footprint templates, the yaw bins and
   the costs below 100 are left out. *)

\* the widest occupancy grid
MaxWidth == 2

\* nav_msgs::OccupancyGrid
OccupancyGrid(frame_id, width, height, lethal) ==
  [frame_id |-> frame_id, width |-> width, height |-> height, lethal |-> lethal]

\* the grids on map and map_overlay: one row of up to MaxWidth cells, or no
\* row, or a row of no cells
Grids ==
  UNION { { OccupancyGrid(f, w, h, l) : l \in SUBSET (0..(w * h - 1)) } :
          f \in {"", "map", "odom"}, w \in {0, MaxWidth}, h \in {0, 1} }

\* Costmap3dLayerBase::setBaseMap (costmap_3d.h): the layer's C-space sized
\* after the grid, in the grid's frame, the grid's lethal cells stamped
setBaseMap(occ) ==
  [frame_id |-> occ.frame_id, width |-> occ.width, height |-> occ.height,
   lethal |-> occ.lethal, sized |-> TRUE]

\* Costmap3dLayerFootprint::processMapOverlay (costmap_3d.h): the lethal cells
\* of the overlay that lie in the base grid stamped onto the base map (MAX),
\* or in its place (OVERWRITE)
processMapOverlay(base, map, occ, overlay_mode) ==
  LET stamped == { c \in occ.lethal : c < map.width * map.height }
  IN  [map EXCEPT !.lethal = IF overlay_mode = "overwrite" THEN stamped
                              ELSE base.lethal \cup stamped]

\* the CSpace3DUpdate the overlay layer hands downstream: the cells that changed
CSpace3DUpdate(before, after) ==
  [frame_id |-> after.frame_id,
   cells |-> (before.lethal \ after.lethal) \cup (after.lethal \ before.lethal)]

\* what a callback of the node leaves in cev
Called(cb, msg, calls, errors) ==
  [cb |-> cb, msg |-> msg, calls |-> calls, errors |-> errors]

\* Costmap3DOFNode::Costmap3DOFNode: throws on an unknown overlay_mode or a
\* missing footprint, else builds the layers, subscribes and advertises
Costmap3DOFNode(ang_resolution, overlay_mode_str, has_footprint) ==
  /\ cev.cb = "none"
  /\ ang_resolution_' = ang_resolution
  /\ overlay_mode_' = overlay_mode_str
  /\ footprint_' = has_footprint
  /\ IF overlay_mode_str \notin {"overwrite", "max"}
     THEN /\ constructed_' = FALSE
          /\ cev' = Called("constructor", 0, <<>>, {"Unknown overlay_mode"})
     ELSE IF ~has_footprint
     THEN /\ constructed_' = FALSE
          /\ cev' = Called("constructor", 0, <<>>, {"Footprint doesn't specified"})
     ELSE /\ constructed_' = TRUE
          /\ cev' = Called("constructor", 0, <<>>, {})
  /\ UNCHANGED <<root_map_, layer_map_, pub_costmap_, pub_costmap_update_,
                 pub_debug_, pub_footprint_>>

\* cbMap with a fault: the snapshot is published before and after setBaseMap
cbMap_publishes_twice(msg) ==
  /\ constructed_
  /\ root_map_' = setBaseMap(msg)
  /\ layer_map_' = setBaseMap(msg)
  /\ pub_costmap_' = <<root_map_, root_map_'>>
  /\ pub_costmap_update_' = <<>>
  /\ pub_debug_' = 1
  /\ pub_footprint_' = 0
  /\ cev' = Called("cbMap", msg, <<"setBaseMap">>,
                   IF ang_resolution_ <= 0 THEN {"ang_resolution is not set."} ELSE {})
  /\ UNCHANGED <<constructed_, ang_resolution_, overlay_mode_, footprint_>>

\* Costmap3DOFNode::cbMap, bound to root_layer.  With a non-positive angular
\* grid it logs an error and builds a std::runtime_error that it does not
\* throw.  setBaseMap sizes the layers downstream as the root.
cbMap(msg) ==
  /\ constructed_
  /\ root_map_' = setBaseMap(msg)
  /\ layer_map_' = setBaseMap(msg)
  /\ pub_costmap_' = <<root_map_'>>
  /\ pub_costmap_update_' = <<>>
  /\ pub_debug_' = 1
  /\ pub_footprint_' = 0
  /\ cev' = Called("cbMap", msg, <<"setBaseMap">>,
                   IF ang_resolution_ <= 0 THEN {"ang_resolution is not set."} ELSE {})
  /\ UNCHANGED <<constructed_, ang_resolution_, overlay_mode_, footprint_>>

\* Costmap3DOFNode::cbUpdate, the handler of the output layer: what it
\* publishes for an update handed down by the overlay layer
cbUpdate(update) ==
  /\ pub_debug_' = 1
  /\ pub_costmap_update_' = <<update>>

\* what cbMapOverlay does when it returns before processMapOverlay
Dropped(msg, errors) ==
  /\ pub_costmap_update_' = <<>>
  /\ pub_debug_' = 0
  /\ cev' = Called("cbMapOverlay", msg, <<>>, errors)
  /\ UNCHANGED layer_map_

\* cbMapOverlay with a fault: the frame_id of the overlay is not compared
cbMapOverlay_any_frame(msg) ==
  /\ constructed_
  /\ IF layer_map_.width < 1 \/ layer_map_.height < 1
     THEN Dropped(msg, {})
     ELSE /\ layer_map_' = processMapOverlay(root_map_, layer_map_, msg, overlay_mode_)
          /\ cbUpdate(CSpace3DUpdate(layer_map_, layer_map_'))
          /\ cev' = Called("cbMapOverlay", msg, <<"processMapOverlay">>, {})
  /\ pub_costmap_' = <<>>
  /\ pub_footprint_' = 0
  /\ UNCHANGED <<constructed_, ang_resolution_, overlay_mode_, footprint_, root_map_>>

\* Costmap3DOFNode::cbMapOverlay, bound to the overlay layer: map->getMap() is
\* that layer's C-space
cbMapOverlay(msg) ==
  /\ constructed_
  /\ IF layer_map_.frame_id # msg.frame_id
     THEN Dropped(msg, {"map and map_overlay must have same frame_id"})
     ELSE IF layer_map_.width < 1 \/ layer_map_.height < 1
     THEN Dropped(msg, {})
     ELSE /\ layer_map_' = processMapOverlay(root_map_, layer_map_, msg, overlay_mode_)
          /\ cbUpdate(CSpace3DUpdate(layer_map_, layer_map_'))
          /\ cev' = Called("cbMapOverlay", msg, <<"processMapOverlay">>, {})
  /\ pub_costmap_' = <<>>
  /\ pub_footprint_' = 0
  /\ UNCHANGED <<constructed_, ang_resolution_, overlay_mode_, footprint_, root_map_>>

\* Costmap3DOFNode::cbPublishFootprint, on a 1 s timer
cbPublishFootprint ==
  /\ constructed_
  /\ pub_footprint_' = 1
  /\ pub_costmap_' = <<>>
  /\ pub_costmap_update_' = <<>>
  /\ pub_debug_' = 0
  /\ cev' = Called("cbPublishFootprint", 0, <<>>, {})
  /\ UNCHANGED <<constructed_, ang_resolution_, overlay_mode_, footprint_,
                 root_map_, layer_map_>>

\* the costmap node alone; the tracker is not running
InitCostmap ==
  /\ Constructed(BaseConfig, FALSE)
  /\ NoneExecuting
  /\ robot_yaw_ = 0
  /\ CostmapNotStarted

NextCostmap ==
  \/ \E ang_resolution \in {0, 4}, overlay_mode_str \in {"max", "overwrite", "min"},
        has_footprint \in BOOLEAN :
       /\ Costmap3DOFNode(ang_resolution, overlay_mode_str, has_footprint)
       /\ UNCHANGED <<tracker, threads, robot_yaw_>>
  \/ \E msg \in Grids : cbMap(msg) /\ UNCHANGED <<tracker, threads, robot_yaw_>>
  \/ \E msg \in Grids : cbMapOverlay(msg) /\ UNCHANGED <<tracker, threads, robot_yaw_>>
  \/ cbPublishFootprint /\ UNCHANGED <<tracker, threads, robot_yaw_>>

SpecCostmap == InitCostmap /\ [][NextCostmap]_vars

----------------------------------------------------------------------------
(* Collapse of near-duplicate poses, over the messages of SpecPath, where the
   velocity of a stored waypoint is the index of the pose it was made from. *)

\* pose j of msg is nearer than eps to the pose before it in the message
NearPrevious(msg, j, eps) ==
  /\ j >= 2
  /\ SquaredNorm(Sub(msg.poses[j - 1].pos, msg.poses[j].pos)) < eps * eps

\* the first pose of the run of near-duplicates that pose j belongs to
RunStart(msg, j, eps) ==
  CHOOSE i \in 1..j :
    /\ ~NearPrevious(msg, i, eps)
    /\ \A k \in (i + 1)..j : NearPrevious(msg, k, eps)

\* K[j] is the last pose up to j that is at least eps away from the pose
\* kept before it; the first pose is always kept
LastKept(msg, eps) ==
  LET K[j \in 1..Len(msg.poses)] ==
        IF j = 1 THEN 1
        ELSE IF SquaredNorm(Sub(msg.poses[K[j - 1]].pos, msg.poses[j].pos)) >= eps * eps
             THEN j
             ELSE K[j - 1]
  IN K

\* the places of the stored path made from pose j
StoredFrom(j) == { k \in 1..Len(path_) : path_[k].velocity_ = j }

\* C12 as stated: a pose nearer than epsilon to the pose before it in the
\* message is not stored with its own position; the last pose of a run of such
\* poses leaves one marker with the position of the first pose of the run and
\* its own yaw, the other poses of the run leave nothing.
C12_AsStated ==
  (ev.cb = "cbPath" /\ ~ev.rejected) =>
    \A j \in 2..Len(ev.msg.poses) :
      NearPrevious(ev.msg, j, epsilon_) =>
        IF j < Len(ev.msg.poses) /\ NearPrevious(ev.msg, j + 1, epsilon_)
        THEN StoredFrom(j) = {}
        ELSE \E k \in 1..Len(path_) :
               /\ StoredFrom(j) = {k}
               /\ path_[k] = Pose2D(ev.msg.poses[RunStart(ev.msg, j, epsilon_)].pos,
                                    ev.msg.poses[j].yaw, j)

\* C12: in an accepted path a pose nearer than epsilon to the last stored
\* waypoint, which need not be the pose before it in the message, is not
\* stored with its own position; the last pose of a run of such poses leaves
\* one marker with the position of that stored waypoint and its own yaw, the
\* other poses of the run leave nothing, and every other pose is stored as
\* it is.
C12_CollapseAgainstLastStored ==
  (ev.cb = "cbPath" /\ ~ev.rejected) =>
    LET n == Len(ev.msg.poses)
        K == LastKept(ev.msg, epsilon_)
    IN \A j \in 1..n :
         IF K[j] = j
         THEN \E k \in 1..Len(path_) :
                /\ StoredFrom(j) = {k}
                /\ path_[k] = Pose2D(ev.msg.poses[j].pos, ev.msg.poses[j].yaw, j)
         ELSE IF j < n /\ K[j + 1] # j + 1
         THEN StoredFrom(j) = {}
         ELSE \E k \in 1..Len(path_) :
                /\ StoredFrom(j) = {k}
                /\ path_[k] = Pose2D(ev.msg.poses[K[j]].pos, ev.msg.poses[j].yaw, j)

\* a run of two poses nearer than epsilon to the first pose of the message,
\* the first of the two at another place than that pose: one marker is stored
C12_Witness ==
  /\ ev.cb = "cbPath" /\ ~ev.rejected
  /\ Len(ev.msg.poses) = 3
  /\ LastKept(ev.msg, epsilon_)[3] = 1
  /\ ev.msg.poses[2].pos # ev.msg.poses[1].pos
  /\ ev.msg.poses[3].yaw # ev.msg.poses[2].yaw
  /\ Len(path_) = 2
  /\ path_[2] = Pose2D(ev.msg.poses[1].pos, ev.msg.poses[3].yaw, 3)

----------------------------------------------------------------------------
(* The turn in place of SpecTurn *)

\* the last callback was a tick that found the stored single waypoint
TickOnWaypoint == Tick /\ Len(path_) = 1 /\ ev.ctl = "emit"

PublishedGoal == Len(pub_status_) = 1 /\ pub_status_[1].status = GOAL

\* the tick was in rotate-in-place mode and published a linear velocity of 0
\* and an angular velocity against the yaw error it reported
RotatesToward ==
  /\ ev.mode = "rotate"
  /\ pub_vel_[1].linear_x = 0
  /\ pub_status_[1].angle_remains > 0 => pub_vel_[1].angular_z < 0
  /\ pub_status_[1].angle_remains < 0 => pub_vel_[1].angular_z > 0

TolerancesAgree == stop_tolerance_ang_ <= goal_tolerance_ang_

\* the tick cleared the limiters: the yaw error is within the stop tolerance
WithinStopTolerance == Abs(pub_status_[1].angle_remains) < stop_tolerance_ang_

----------------------------------------------------------------------------
(* The costmap node, under SpecCostmap *)

\* C14 as stated: an overlay that arrives before any base map is dropped with
\* an error, whatever its frame_id: processMapOverlay is not called, nothing
\* is published on costmap_update, and an error is reported.
C14_AsStated ==
  (cev.cb = "cbMapOverlay" /\ ~root_map_.sized) =>
    /\ cev.calls = <<>>
    /\ pub_costmap_update_ = <<>>
    /\ cev.errors # {}

\* C15: an overlay whose frame_id differs from that of the base map is
\* rejected: processMapOverlay is not called, nothing is published on
\* costmap_update, and the C-spaces are as they were.
C15_MismatchedFrameRejected ==
  [][(cev'.cb = "cbMapOverlay" /\ root_map_.sized
        /\ cev'.msg.frame_id # root_map_.frame_id) =>
       /\ cev'.calls = <<>>
       /\ pub_costmap_update_' = <<>>
       /\ UNCHANGED <<root_map_, layer_map_>>]_vars

\* an overlay in another frame than the base map, itself a grid with a lethal
\* cell the C-space does not have
C15_Witness ==
  /\ cev.cb = "cbMapOverlay"
  /\ root_map_.sized /\ root_map_.width >= 1 /\ root_map_.height >= 1
  /\ cev.msg.frame_id # root_map_.frame_id
  /\ cev.msg.lethal \ layer_map_.lethal # {}
  /\ cev.errors # {}

\* a grid with no cells
Degenerate(msg) == msg.width = 0 \/ msg.height = 0

\* C16 as stated: a base map or an overlay with width 0 or height 0 is logged
\* and dropped: neither setBaseMap nor processMapOverlay is applied, nothing
\* is published, and the C-spaces are as they were.
C16_AsStated ==
  [][(cev'.cb \in {"cbMap", "cbMapOverlay"} /\ Degenerate(cev'.msg)) =>
       /\ cev'.calls = <<>>
       /\ pub_costmap_' = <<>>
       /\ pub_costmap_update_' = <<>>
       /\ UNCHANGED <<root_map_, layer_map_>>]_vars

\* the parameters of the node are among those the node must not start with
ConfigurationFatal ==
  \/ ~footprint_
  \/ overlay_mode_ \notin {"overwrite", "max"}
  \/ ang_resolution_ <= 0

\* C17 as stated: started with a missing footprint, an unknown overlay_mode
\* or a non-positive ang_resolution, the node terminates at startup: it never
\* calls setBaseMap and never publishes on costmap.
C17_AsStated ==
  (cev.cb # "none" /\ ConfigurationFatal) =>
    /\ ~constructed_
    /\ ~root_map_.sized
    /\ pub_costmap_ = <<>>

\* the overlay is one cbMapOverlay hands to processMapOverlay: a base map
\* with cells was received, and the overlay is in its frame
Acceptable(msg) ==
  /\ root_map_.sized /\ root_map_.width >= 1 /\ root_map_.height >= 1
  /\ msg.frame_id = root_map_.frame_id

\* C18: every base-map message is handed to setBaseMap and then published
\* once, as the full snapshot, on costmap; every accepted overlay is handed to
\* processMapOverlay and published once on costmap_update and not on costmap;
\* an overlay that is not accepted is published nowhere.
C18_OnePublicationPerMessage ==
  /\ cev.cb = "cbMap" =>
       /\ cev.calls = <<"setBaseMap">>
       /\ root_map_ = setBaseMap(cev.msg)
       /\ pub_costmap_ = <<root_map_>>
  /\ cev.cb = "cbMapOverlay" =>
       /\ pub_costmap_ = <<>>
       /\ IF Acceptable(cev.msg)
          THEN cev.calls = <<"processMapOverlay">> /\ Len(pub_costmap_update_) = 1
          ELSE cev.calls = <<>> /\ pub_costmap_update_ = <<>>

\* an accepted overlay that changed the C-space of its layer, published as an
\* update of one cell
C18_Witness ==
  /\ cev.cb = "cbMapOverlay"
  /\ Acceptable(cev.msg)
  /\ layer_map_.lethal # root_map_.lethal
  /\ Len(pub_costmap_update_) = 1
  /\ Cardinality(pub_costmap_update_[1].cells) = 1

----------------------------------------------------------------------------
(* Mutual exclusion of the tracker's callbacks, under SpecSpin *)

\* C19 as stated: every callback that is running holds the one mutex.
C19_AsStated ==
  \A cb \in executing_ : parameter_server_mutex_ = cb

\* C19: no two callbacks of the tracker run at the same time, because
\* ros::spin() runs them from one thread; parameter_server_mutex_ is held by
\* cbParameter while it runs and by no other callback.
C19_SerializedBySpin ==
  /\ Cardinality(executing_) <= 1
  /\ \A cb \in executing_ : (parameter_server_mutex_ = cb) <=> (cb = "cbParameter")
  /\ executing_ = {} => parameter_server_mutex_ = "none"

\* cbPath is running, on a stored path, and the mutex is free
C19_Witness ==
  /\ executing_ = {"cbPath"}
  /\ parameter_server_mutex_ = "none"
  /\ Len(path_) > 0

----------------------------------------------------------------------------
(* The linear limiter in rotate-in-place mode *)

\* the tick was in rotate-in-place mode
RotateTick == Tick /\ ev.ctl = "emit" /\ ev.mode = "rotate"

----------------------------------------------------------------------------
(* The progress index *)

\* the status the tick published
Published(status) == Len(pub_status_) = 1 /\ pub_status_[1].status = status

\* C21: between two path messages path_step_done never decreases; a tick
\* that ends as NO_PATH or FAR_FROM_PATH leaves it unchanged, and a tick that
\* reaches the emit step with the local goal at the end of the path leaves it
\* below the last local waypoint unless it was there before.
C21_ProgressNeverDecreases ==
  [][ev'.cb # "cbPath" =>
       /\ path_step_done_' >= path_step_done_
       /\ (Tick' /\ (Published(NO_PATH)' \/ Published(FAR_FROM_PATH)')) =>
            path_step_done_' = path_step_done_
       /\ (Tick' /\ ev'.ctl = "emit" /\ ev'.local_goal_at_end) =>
            path_step_done_' <= Max(path_step_done_, Len(LocalPath(0)) - 2)
       /\ (Tick' /\ ev'.ctl = "emit" /\ path_step_done_' = Len(LocalPath(0))) =>
            path_step_done_ = path_step_done_']_vars

\* a tick at the emit step with two waypoints passed and the local goal
\* before the end of the path
C21_Witness ==
  /\ Tick /\ ev.ctl = "emit"
  /\ path_step_done_ >= 2
  /\ ~ev.local_goal_at_end

----------------------------------------------------------------------------
(* The odometry tick *)

\* C22 as stated: the first odometry message only records its stamp and calls
\* no control; every later one calls control once with
\* dt = min(max_dt, stamp - previous stamp), and 0 < dt <= max_dt.
C22_AsStated ==
  [][ev'.cb = "cbOdometry" =>
       IF prev_odom_stamp_ = 0
       THEN ev'.ctl = "none" /\ pub_status_' = <<>>
       ELSE /\ ev'.ctl # "none"
            /\ Len(pub_status_') = 1
            /\ ev'.dt = Min(MaxDt, prev_odom_stamp_' - prev_odom_stamp_)
            /\ 0 < ev'.dt /\ ev'.dt <= MaxDt]_vars

----------------------------------------------------------------------------
(* The progress index as an index into the local path, under SpecStep *)

\* the tick went on to findLocalGoal and findNearest
ReachedSelection ==
  Tick /\ ev.ctl \notin {"none", "no_path", "tf_exception", "tf_exception_timer"}

\* C23 as stated: at every tick that reaches waypoint selection,
\* path_step_done is at most the number of local waypoints, whatever path
\* messages and configuration updates came before.
C23_AsStated ==
  [][ReachedSelection' => path_step_done_ <= Len(LocalPath(0))]_vars

----------------------------------------------------------------------------
(* What a FAR_FROM_PATH tick leaves *)

\* C24: a tick that ends as FAR_FROM_PATH publishes the twist (0, 0) and
\* leaves v_lim, w_lim and path_step_done as they were; a tick that follows
\* it and reaches the emit step without clearing the limiters moves them from
\* the retained values by at most acc * dt, the linear one by twice that
\* when the tick sets it a second time under limit_vel_by_avel.
C24_FarKeepsLimiters ==
  [][/\ (Tick' /\ Published(FAR_FROM_PATH)') =>
          /\ pub_vel_' = <<Twist(0, 0)>>
          /\ UNCHANGED <<v_lim_, w_lim_, path_step_done_>>
     /\ (Tick /\ Published(FAR_FROM_PATH) /\ Tick' /\ ev'.ctl = "emit"
           /\ ~ev'.stopped) =>
          /\ Abs(v_lim_' - v_lim_)
               <= (IF ev'.limited_by_avel THEN 2 ELSE 1) * acc_[1] * ev'.dt
          /\ Abs(w_lim_' - w_lim_) <= acc_[2] * ev'.dt]_vars

\* a FAR_FROM_PATH tick of a robot that moves and turns, part of the path
\* behind it
C24_Witness ==
  /\ Tick /\ Published(FAR_FROM_PATH)
  /\ pub_vel_ = <<Twist(0, 0)>>
  /\ v_lim_ # 0 /\ w_lim_ # 0
  /\ path_step_done_ > 0

----------------------------------------------------------------------------
(* The end of the local path *)

\* C25 as stated: on every tick that builds the local path of a non-empty
\* stored path, the last local waypoint is the last stored waypoint (here in
\* the frame of the path, under a transform of yaw 0).
C25_AsStated ==
  ReachedSelection =>
    LocalPath(0)[Len(LocalPath(0))] = path_[Len(path_)]

----------------------------------------------------------------------------
(* The direction of travel without backward motion *)

\* the waypoint after the progress index has a yaw opposite to the heading
\* of the segment that leads to it
YawAgainstHeading ==
  /\ path_step_done_ + 2 <= Len(path_)
  /\ LET to == path_[path_step_done_ + 2]
         inc == Sub(to.pos_, path_[path_step_done_ + 1].pos_)
     IN  inc # <<0, 0>> /\ Cos(Atan2(inc) - to.yaw_) < 0

\* C26: when allow_backward is false, on every tick that finds a nearest
\* waypoint, whatever transform it is handed, sign_vel is +1, and the linear
\* target of path following, timeOptimalControl(-remain_local * sign_vel),
\* never has the sign opposite to remain_local.
C26_ForwardOnly ==
  (~allow_backward_ /\ Len(path_) > 0 /\ IteratorDefined) =>
    \A origin \in Origins, trans_yaw \in TransYaws :
      LET lpath == LocalPath(trans_yaw)
          i_local_goal == findLocalGoal(lpath, path_step_done_, allow_backward_,
                                        trans_yaw)
          i_nearest == findNearest(lpath, path_step_done_, i_local_goal, origin,
                                   IF path_step_done_ > 0 THEN 1 ELSE 0)
          e == controlErrors(lpath, i_local_goal, i_nearest, origin, trans_yaw)
      IN  i_nearest # Len(lpath) =>
            /\ e.sign_vel = 1
            /\ timeOptimalControl(-e.remain_local * e.sign_vel, acc_toc_[1])
                  * e.remain_local >= 0

\* a path-following tick without backward motion, on a path whose next
\* waypoint has a yaw opposite to the heading of its segment
C26_Witness ==
  /\ Tick /\ ev.ctl = "emit" /\ ev.mode = "follow"
  /\ ~allow_backward_
  /\ YawAgainstHeading
  /\ v_lim_ > 0

====
